---- MODULE Spec2Model ----
(***************************************************************************)
(* The batch-compilation pipeline of roblox-ts' parallel compile path:     *)
(*   compileAndWriteFilesParallel  (src/unnamed/part_000)                  *)
(*   compileFilesParallelPhase2    (src/src/Project/functions/...)         *)
(* One run is: custom-transformer step -> sequential transform of every    *)
(* source file -> render -> diagnostics check -> batched concurrent write. *)
(*                                                                         *)
(* Source files are identified by their index 1..n in the input array.     *)
(* The collaborators that are not part of the orchestrator (pre-emit       *)
(* diagnostics, transformSourceFile, renderAST, PathTranslator, the        *)
(* initial file system) are inputs, held in the record cfg.                *)
(***************************************************************************)
EXTENDS Integers, Sequences, FiniteSets, TLC

VARIABLES
    cfg,            \* the inputs of the run (never changes)
    run,            \* 1 for the first call, 2 for an immediately repeated call
    pc,             \* position of the coordinating task
    sink,           \* DiagnosticService: the process-wide diagnostic sink
    fs,             \* destination file system: output path -> content
    transformedOut, \* source files whose transformed source was written (step 0)
    astResults,     \* compileFilesParallelPhase2: astResults
    renderTasks,    \* compileFilesParallelPhase2, async render: renderTasks
    results,        \* compileFilesParallelPhase2: renderResults / results
    allDiagnostics, \* compileAndWriteFilesParallel: allDiagnostics
    batches,        \* compileAndWriteFilesParallel: batches (indices into results)
    batchIdx,       \* index of the batch the for-of loop is at
    task,           \* write task per result: position and resolved value
    emittedFiles,   \* compileAndWriteFilesParallel: emittedFiles
    stats,          \* the statistics the run reports
    ret,            \* the value the call returned
    transformCalls, \* history: files transformSourceFile was invoked on
    renderCalls,    \* history: files renderAST was invoked on
    fsFirst,        \* history: the file system as the first call left it
    resultsFirst    \* history: the results of the first call

vars == <<cfg, resultsFirst, run, pc, sink, fs, transformedOut, astResults, renderTasks, results,
          allDiagnostics, batches, batchIdx, task, emittedFiles, stats, ret,
          transformCalls, renderCalls, fsFirst>>

(***************************************************************************)
(* Bounds and program constants                                            *)
(***************************************************************************)
MaxUnits == 3
MaxBatchUnits == 6
BATCH_SIZE == 50

\* The source fixes the batch size at BATCH_SIZE; the loop that forms the
\* batches is parametric in it, so the model also runs it with small sizes to
\* make batch boundaries happen with few source files.
BatchSizes == {1, 2, BATCH_SIZE}

NULL == "<null>"        \* source: null
ABSENT == "<absent>"    \* a path that does not exist
PARTIAL == "<partial>"  \* what a write that failed midway may leave behind
NullAST == <<>>         \* luauAST: null
NoPath == <<>>          \* value of a write task that wrote nothing: null

Texts == {"", "a", "b"}             \* what renderAST may return
Contents == {ABSENT, "a"}           \* initial content of a destination
Categories == {"Error", "Warning", "Message"}

Min(a, b) == IF a < b THEN a ELSE b

\* the destination paths a run over n source files may touch
Paths(n) == { <<"out", k>> : k \in 1..n }

(***************************************************************************)
(* Diagnostics                                                             *)
(***************************************************************************)
\* A diagnostic records where it was produced, so attribution can be stated.
Diag(stage, file, category) == [stage |-> stage, file |-> file, category |-> category]

Diags(stage, file, cats) == [k \in 1..Len(cats) |-> Diag(stage, file, cats[k])]

\* diagnostics.some(d => d.category === ts.DiagnosticCategory.Error)
SomeError(diags) == \E k \in 1..Len(diags) : diags[k].category = "Error"

\* mutant: any diagnostic counts as an error
LocalHasErrorsAny(diags) == diags # <<>>

\* mutant: only the first diagnostic is looked at
LocalHasErrorsHead(diags) == diags # <<>> /\ diags[1].category = "Error"

\* LocalDiagnosticCollector.hasErrors
LocalHasErrors(diags) == SomeError(diags)

\* DiagnosticService.hasErrors
SinkHasErrors(s) == SomeError(s)

(***************************************************************************)
(* Collaborators, as inputs                                                *)
(***************************************************************************)
SourceFiles == 1..cfg.n

\* ts.getPreEmitDiagnostics followed by getCustomPreEmitDiagnostics
PreEmitDiagnostics(f) == Diags("pre", f, cfg.pre[f])

\* what transformSourceFile reports into DiagnosticService for file f
TransformReports(f) == Diags("transform", f, cfg.tr[f])

\* the Luau AST transformSourceFile returns for file f
AstOf(f) == <<f>>

\* renderAST: a pure function of the AST
renderAST(ast) == cfg.text[ast[1]]

\* pathTranslator.getOutputPath(result.sourceFile.fileName)
getOutputPath(f) == cfg.outPath[f]

\* transformResult.diagnostics of the custom transformers
PluginDiagnostics == Diags("plugin", 0, cfg.plugin.diags)

(***************************************************************************)
(* compileSingleFileToAST                                                  *)
(***************************************************************************)
\* mutant: no return after the pre-emit diagnostics
compileSingleFileToASTNoGate(f, s) ==
    LET pre     == PreEmitDiagnostics(f)
        flushed == s \o TransformReports(f)
        local   == pre \o flushed
    IN  [result  |-> [sourceFile  |-> f,
                      luauAST     |-> IF LocalHasErrors(local) THEN NullAST ELSE AstOf(f),
                      diagnostics |-> local],
         sink    |-> <<>>,
         invoked |-> TRUE]

\* mutant: the sink is read without being drained
compileSingleFileToASTNoFlush(f, s) ==
    LET pre == PreEmitDiagnostics(f)
    IN  IF LocalHasErrors(pre)
        THEN [result  |-> [sourceFile |-> f, luauAST |-> NullAST, diagnostics |-> pre],
              sink    |-> s,
              invoked |-> FALSE]
        ELSE LET flushed == s \o TransformReports(f)
                 local   == pre \o flushed
             IN  [result  |-> [sourceFile  |-> f,
                               luauAST     |-> IF LocalHasErrors(local) THEN NullAST ELSE AstOf(f),
                               diagnostics |-> local],
                  sink    |-> flushed,
                  invoked |-> TRUE]

\* Returns the result, the sink as the call leaves it, and whether
\* transformSourceFile was invoked.
compileSingleFileToAST(f, s) ==
    LET pre == PreEmitDiagnostics(f)
    IN  IF LocalHasErrors(pre)
        THEN [result  |-> [sourceFile |-> f, luauAST |-> NullAST, diagnostics |-> pre],
              sink    |-> s,
              invoked |-> FALSE]
        ELSE LET flushed == s \o TransformReports(f)   \* DiagnosticService.flush()
                 local   == pre \o flushed
             IN  [result  |-> [sourceFile  |-> f,
                               luauAST     |-> IF LocalHasErrors(local) THEN NullAST ELSE AstOf(f),
                               diagnostics |-> local],
                  sink    |-> <<>>,
                  invoked |-> TRUE]

\* mutant: the transform loop never breaks
EarlyExitNever(result) == FALSE

\* "Early exit on errors": the test that breaks the transform loop
EarlyExit(result) == SomeError(result.diagnostics)

\* the implementation in use in the current call
RenderMode == IF cfg.variant = "phase2" /\ run = 2 THEN cfg.second ELSE cfg.render

\* the transform loop has ended: all files done, or the last result broke it
TransformLoopDone ==
    \/ Len(astResults) = cfg.n
    \/ Len(astResults) > 0 /\ EarlyExit(astResults[Len(astResults)])

\* mutant: the rendered result starts with fresh diagnostics
RenderOneFreshDiagnostics(astResult) ==
    IF astResult.luauAST = NullAST
    THEN [sourceFile |-> astResult.sourceFile, source |-> NULL,
          diagnostics |-> astResult.diagnostics]
    ELSE [sourceFile |-> astResult.sourceFile, source |-> renderAST(astResult.luauAST),
          diagnostics |-> <<>>]

\* astResults.map(astResult => ...): one rendered result
RenderOne(astResult) ==
    IF astResult.luauAST = NullAST
    THEN [sourceFile |-> astResult.sourceFile, source |-> NULL,
          diagnostics |-> astResult.diagnostics]
    ELSE [sourceFile |-> astResult.sourceFile, source |-> renderAST(astResult.luauAST),
          diagnostics |-> astResult.diagnostics]

\* mutant: no error check after the transformer
compileSingleFileNoSecondCheck(f, s) ==
    LET pre == PreEmitDiagnostics(f)
    IN  IF LocalHasErrors(pre)
        THEN [result   |-> [sourceFile |-> f, source |-> NULL, diagnostics |-> pre],
              sink     |-> s,
              invoked  |-> FALSE,
              rendered |-> FALSE]
        ELSE [result   |-> [sourceFile  |-> f,
                            source      |-> renderAST(AstOf(f)),
                            diagnostics |-> pre \o (s \o TransformReports(f))],
              sink     |-> <<>>,
              invoked  |-> TRUE,
              rendered |-> TRUE]

\* compileSingleFile of the single-pass compileFilesParallel. Returns the
\* result, the sink as the call leaves it, and whether transformSourceFile
\* and renderAST were invoked.
compileSingleFile(f, s) ==
    LET pre == PreEmitDiagnostics(f)
    IN  IF LocalHasErrors(pre)
        THEN [result   |-> [sourceFile |-> f, source |-> NULL, diagnostics |-> pre],
              sink     |-> s,
              invoked  |-> FALSE,
              rendered |-> FALSE]
        ELSE LET local == pre \o (s \o TransformReports(f))   \* DiagnosticService.flush()
             IN  IF LocalHasErrors(local)
                 THEN [result   |-> [sourceFile |-> f, source |-> NULL, diagnostics |-> local],
                       sink     |-> <<>>,
                       invoked  |-> TRUE,
                       rendered |-> FALSE]
                 ELSE [result   |-> [sourceFile  |-> f,
                                     source      |-> renderAST(AstOf(f)),
                                     diagnostics |-> local],
                       sink     |-> <<>>,
                       invoked  |-> TRUE,
                       rendered |-> TRUE]

\* the loop of the single-pass compileFilesParallel has ended
SinglePassDone ==
    \/ Len(results) = cfg.n
    \/ Len(results) > 0 /\ EarlyExit(results[Len(results)])

(***************************************************************************)
(* compileAndWriteFilesParallel: pure parts                                *)
(***************************************************************************)
\* mutant: assignment in place of push, the last result's diagnostics remain
CollectDiagnosticsLast(rs) == IF rs = <<>> THEN <<>> ELSE rs[Len(rs)].diagnostics

RECURSIVE CollectDiagnostics(_)
\* results.forEach(result => allDiagnostics.push(...result.diagnostics))
CollectDiagnostics(rs) ==
    IF rs = <<>> THEN <<>> ELSE Head(rs).diagnostics \o CollectDiagnostics(Tail(rs))

\* mutant: the error check is dropped
RunHasErrorsNever(diags) == FALSE

\* mutant: every() in place of some()
RunHasErrorsEvery(diags) == \A k \in 1..Len(diags) : diags[k].category = "Error"

\* mutant: only the first diagnostic is looked at
RunHasErrorsFirst(diags) == diags # <<>> /\ diags[1].category = "Error"

\* allDiagnostics.some(d => d.category === ts.DiagnosticCategory.Error)
RunHasErrors(diags) == SomeError(diags)

\* mutant: the end of the slice is not clamped to the length
SliceUnclamped(from, to, len) == [k \in 1..(to - from) |-> from + k]

\* mutant: the slice stops one short of its end
SliceOffByOne(from, to, len) == [k \in 1..(Min(to - 1, len) - from) |-> from + k]

\* results.slice(from, to) as the 1-based indices of the results it holds
Slice(from, to, len) == [k \in 1..(Min(to, len) - from) |-> from + k]

RECURSIVE BatchLoop(_, _, _, _)
\* for (let i = 0; i < results.length; i += BATCH_SIZE) batches.push(results.slice(i, i + BATCH_SIZE))
BatchLoop(i, len, size, acc) ==
    IF i < len
    THEN BatchLoop(i + size, len, size, Append(acc, Slice(i, i + size, len)))
    ELSE acc

\* The batched variant forms batches; the unbatched variant maps all results
\* at once, which is one group of tasks whatever its size.
FormBatches(len, size) ==
    IF cfg.variant = "batched"
    THEN BatchLoop(0, len, size, <<>>)
    ELSE << [k \in 1..len |-> k] >>

\* if (result.source): JavaScript truthiness of a string | null
Truthy(source) == source # NULL /\ source # ""

\* mutant: the existing content is checked whatever writeOnlyChanged says
TaskStartAlwaysCheck(result) ==
    IF ~Truthy(result.source) THEN [pc |-> "done", value |-> NoPath]
    ELSE [pc |-> "pathExists", value |-> NoPath]

\* The synchronous prefix of a write task, up to its first await.
TaskStart(result) ==
    IF ~Truthy(result.source) THEN [pc |-> "done", value |-> NoPath]
    ELSE IF ~cfg.writeOnlyChanged THEN [pc |-> "outputFile", value |-> NoPath]
    ELSE [pc |-> "pathExists", value |-> NoPath]

\* mutant: === in place of !==
ContentSame(content, source) == content = source

\* mutant: the comparison is dropped, an existing file is always rewritten
ContentDiffersAlways(content, source) == TRUE

\* (await fs.readFile(outPath, "utf8")) !== result.source
ContentDiffers(content, source) == content # source

\* mutant: the paths are collected last task first
WrittenOfReversed(batch) ==
    LET w == SelectSeq(batch, LAMBDA k : task[k].value # NoPath)
    IN  [i \in 1..Len(w) |-> task[w[Len(w) + 1 - i]].value]

RECURSIVE WrittenOf(_)
\* written.filter(p => p !== null), over the tasks of one batch in batch order
WrittenOf(batch) ==
    IF batch = <<>> THEN <<>>
    ELSE (IF task[Head(batch)].value # NoPath THEN <<task[Head(batch)].value>> ELSE <<>>)
         \o WrittenOf(Tail(batch))

\* mutant: truthiness in place of !== null
StatsSuccessfulTruthy(rs) == Cardinality({k \in 1..Len(rs) : Truthy(rs[k].source)})

\* results.filter(r => r.source !== null).length
StatsSuccessful(rs) == Cardinality({k \in 1..Len(rs) : rs[k].source # NULL})

\* mutant: !r.source in place of r.source === null
StatsFailedFalsy(rs) == Cardinality({k \in 1..Len(rs) : ~Truthy(rs[k].source)})

\* results.filter(r => r.source === null).length
StatsFailed(rs) == Cardinality({k \in 1..Len(rs) : rs[k].source = NULL})

\* the statistics block, with the two output counts the report prints
ComputeStats(rs, diags, emitted) ==
    [total            |-> Len(rs),
     successful       |-> StatsSuccessful(rs),
     failed           |-> StatsFailed(rs),
     totalDiagnostics |-> Len(diags),
     written          |-> Len(emitted),
     skipped          |-> StatsSuccessful(rs) - Len(emitted)]

RECURSIVE SumDiagnostics(_, _)
\* results.reduce((sum, r) => sum + r.diagnostics.length, 0), from result k on
SumDiagnostics(rs, k) ==
    IF k > Len(rs) THEN 0 ELSE Len(rs[k].diagnostics) + SumDiagnostics(rs, k + 1)

\* getCompilationStats
getCompilationStats(rs) ==
    [total            |-> Len(rs),
     successful       |-> StatsSuccessful(rs),
     failed           |-> StatsFailed(rs),
     totalDiagnostics |-> SumDiagnostics(rs, 1)]

\* the divisor of the average the report prints: totalTime / stats.total
AverageDivisor(st) == st.total

NoStats == [total |-> 0, successful |-> 0, failed |-> 0, totalDiagnostics |-> 0,
            written |-> 0, skipped |-> 0]

NoReturn == [returned |-> FALSE, emitSkipped |-> FALSE, diagnostics |-> <<>>,
             hasEmittedFiles |-> FALSE, emittedFiles |-> <<>>]

\* mutant: the diagnostics are dropped from the skipped return
ReturnSkippedEmpty(diags) ==
    [returned |-> TRUE, emitSkipped |-> TRUE, diagnostics |-> <<>>,
     hasEmittedFiles |-> FALSE, emittedFiles |-> <<>>]

\* return { emitSkipped: true, diagnostics }
ReturnSkipped(diags) ==
    [returned |-> TRUE, emitSkipped |-> TRUE, diagnostics |-> diags,
     hasEmittedFiles |-> FALSE, emittedFiles |-> <<>>]

\* return { emitSkipped: false, diagnostics: allDiagnostics, emittedFiles }
ReturnEmitted(diags, emitted) ==
    [returned |-> TRUE, emitSkipped |-> FALSE, diagnostics |-> diags,
     hasEmittedFiles |-> TRUE, emittedFiles |-> emitted]

(***************************************************************************)
(* Inputs                                                                  *)
(***************************************************************************)
NoPlugins == [active |-> FALSE, diags |-> <<>>, writeTransformedFiles |-> FALSE]

\* compilerOptions.plugins with transformers, what they report, and
\* data.projectOptions.writeTransformedFiles
PluginCfgs ==
    { NoPlugins,
      [active |-> TRUE, diags |-> <<>>, writeTransformedFiles |-> TRUE],
      [active |-> TRUE, diags |-> <<"Warning">>, writeTransformedFiles |-> FALSE],
      [active |-> TRUE, diags |-> <<"Error">>, writeTransformedFiles |-> TRUE],
      [active |-> TRUE, diags |-> <<"Warning", "Error">>, writeTransformedFiles |-> TRUE] }

\* What the pre-checks and the transformer report for one file.
UnitOutcomes ==
    { [pre |-> <<>>,          tr |-> <<>>],
      [pre |-> <<"Warning">>, tr |-> <<"Message">>],
      [pre |-> <<"Error">>,   tr |-> <<>>],
      [pre |-> <<>>,          tr |-> <<"Error">>],
      [pre |-> <<"Warning">>, tr |-> <<"Warning", "Error">>] }

Clean(n) == [f \in 1..n |-> <<>>]

\* getOutputPath keeps the files apart ...
DistinctOutPath(n) == [f \in 1..n |-> <<"out", f>>]

\* ... or sends them all to one path (a.ts and a.tsx both compile to a.lua)
SameOutPath(n) == [f \in 1..n |-> <<"out", 1>>]

\* which compileFilesParallelPhase2 is linked: the one that renders in the
\* map callback, or the one that maps to async render tasks
RenderModes == {"sync", "async"}

\* writeOnlyChanged; a run with the flag set is repeated at once
WriteModes == { [flag |-> FALSE, repeat |-> FALSE], [flag |-> TRUE, repeat |-> TRUE] }

\* Write-stage inputs with distinct destinations: every text, initial file
\* system, flag and batch size; no diagnostics.
ConfigsWriteDistinct ==
    UNION { { [variant |-> "batched", n |-> n, pre |-> Clean(n), tr |-> Clean(n),
               text |-> t, plugin |-> NoPlugins, writeOnlyChanged |-> w.flag, render |-> "sync",
               batchSize |-> b, outPath |-> DistinctOutPath(n), fs0 |-> f,
               repeat |-> w.repeat] :
              t \in [1..n -> Texts], b \in BatchSizes, f \in [Paths(n) -> Contents],
              w \in WriteModes } : n \in 0..MaxUnits }

\* Write-stage inputs with one shared destination, whose initial content varies.
ConfigsWriteShared ==
    UNION { { [variant |-> "batched", n |-> n, pre |-> Clean(n), tr |-> Clean(n),
               text |-> t, plugin |-> NoPlugins, writeOnlyChanged |-> w.flag, render |-> "sync",
               batchSize |-> b, outPath |-> SameOutPath(n),
               fs0 |-> [q \in Paths(n) |-> IF q = <<"out", 1>> THEN c ELSE ABSENT],
               repeat |-> w.repeat] :
              t \in [1..n -> Texts], b \in BatchSizes, c \in Contents,
              w \in WriteModes } : n \in 2..MaxUnits }

ConfigsWrite == ConfigsWriteDistinct \cup ConfigsWriteShared

\* Transform-stage inputs: every combination of per-file diagnostics and of
\* the custom-transformer step. Custom transformers report on the source
\* files they are given, so they report nothing when there is none.
ConfigsDiag ==
    UNION { { [variant |-> "batched", n |-> n, pre |-> [f \in 1..n |-> u[f].pre],
               tr |-> [f \in 1..n |-> u[f].tr],
               text |-> [f \in 1..n |-> "a"], plugin |-> g, writeOnlyChanged |-> TRUE,
               batchSize |-> 2, outPath |-> DistinctOutPath(n),
               fs0 |-> [q \in Paths(n) |-> ABSENT], repeat |-> FALSE, render |-> r] :
              u \in [1..n -> UnitOutcomes], r \in RenderModes,
              g \in {x \in PluginCfgs : n = 0 => x.diags = <<>>} } : n \in 0..MaxUnits }

\* The unbatched variant of compileAndWriteFilesParallel
ConfigsUnbatched ==
    UNION { { [variant |-> "unbatched", n |-> n, pre |-> Clean(n), tr |-> t,
               text |-> x, plugin |-> NoPlugins, writeOnlyChanged |-> w,
               batchSize |-> b, outPath |-> DistinctOutPath(n),
               fs0 |-> [q \in Paths(n) |-> c], repeat |-> w, render |-> r] :
              t \in [1..n -> {<<>>, <<"Error">>}], x \in [1..n -> {"a", "b"}],
              r \in RenderModes,
              w \in BOOLEAN, b \in BatchSizes, c \in Contents } : n \in 0..MaxUnits }

\* Inputs for the batch partition: up to MaxBatchUnits files; only the first
\* may render a non-empty text, so the write tasks stay few.
ConfigsBatches ==
    UNION { { [variant |-> "batched", n |-> n, pre |-> Clean(n), tr |-> Clean(n),
               text |-> [f \in 1..n |-> IF f = 1 THEN x ELSE ""], plugin |-> NoPlugins,
               writeOnlyChanged |-> w, batchSize |-> b,
               outPath |-> DistinctOutPath(n),
               fs0 |-> [q \in Paths(n) |-> c], repeat |-> (w /\ n < 2), render |-> r] :
              x \in {"", "a", "b"}, w \in BOOLEAN, b \in BatchSizes \cup {3},
              r \in RenderModes,
              c \in Contents } : n \in 0..MaxBatchUnits }

\* what an earlier compilation in the process may have left in the sink:
\* nothing, or a Warning of the custom transformers that no file drained
LeftInSink == { <<>>, Diags("plugin", 0, <<"Warning">>) }

\* the implementations of compileFilesParallel: the single pass that renders
\* each file after transforming it, and the two passes with either render
Implementations == {"single"} \cup RenderModes

\* compileFilesParallel called on its own, as the tests do, its results then
\* handed to getCompilationStats; the second call may be to another
\* implementation
ConfigsPhase2 ==
    UNION { { [variant |-> "phase2", n |-> n, pre |-> [f \in 1..n |-> u[f].pre],
               tr |-> [f \in 1..n |-> u[f].tr],
               text |-> [f \in 1..n |-> IF f = 1 THEN x ELSE "a"], plugin |-> NoPlugins,
               writeOnlyChanged |-> FALSE, batchSize |-> BATCH_SIZE,
               outPath |-> DistinctOutPath(n), fs0 |-> [q \in Paths(n) |-> ABSENT],
               repeat |-> TRUE, render |-> r, second |-> r2, sink0 |-> z] :
              u \in [1..n -> UnitOutcomes], x \in {"", "a"}, r \in Implementations,
              r2 \in Implementations, z \in LeftInSink } :
            n \in 0..MaxUnits }

\* Result sequences handed to getCompilationStats whatever produced them:
\* any number of results with text absent, empty or not, and any diagnostics.
GivenResults ==
    UNION { { [k \in 1..n |-> [sourceFile |-> k, source |-> x[k],
                               diagnostics |-> Diags("given", k, d[k])]] :
              x \in [1..n -> {NULL, "", "a"}],
              d \in [1..n -> {<<>>, <<"Warning">>, <<"Warning", "Error">>}] } :
            n \in 0..MaxUnits }

ConfigGiven(n) ==
    [variant |-> "given", n |-> n, pre |-> Clean(n), tr |-> Clean(n),
     text |-> [f \in 1..n |-> "a"], plugin |-> NoPlugins, writeOnlyChanged |-> FALSE,
     batchSize |-> BATCH_SIZE, outPath |-> DistinctOutPath(n),
     fs0 |-> [q \in Paths(n) |-> ABSENT], repeat |-> FALSE, render |-> "sync"]

\* Inputs for the runs in which file-system calls may fail: no diagnostics,
\* distinct destinations that all exist with the rendered text or all do not.
ConfigsFault ==
    UNION { { [variant |-> "batched", n |-> n, pre |-> Clean(n), tr |-> Clean(n),
               text |-> [f \in 1..n |-> "a"], plugin |-> NoPlugins,
               writeOnlyChanged |-> w, batchSize |-> b, outPath |-> DistinctOutPath(n),
               fs0 |-> [q \in Paths(n) |-> c], repeat |-> w, render |-> r] :
              w \in BOOLEAN, b \in {1, 2}, c \in Contents, r \in RenderModes } :
            n \in 0..(MaxUnits + 2) }

InitWith(configs) ==
    /\ cfg \in configs
    /\ run = 1
    /\ pc = "start"
    /\ sink = <<>>
    /\ fs = cfg.fs0
    /\ transformedOut = {}
    /\ astResults = <<>>
    /\ renderTasks = <<>>
    /\ results = <<>>
    /\ allDiagnostics = <<>>
    /\ batches = <<>>
    /\ batchIdx = 1
    /\ task = <<>>
    /\ emittedFiles = <<>>
    /\ stats = NoStats
    /\ ret = NoReturn
    /\ transformCalls = <<>>
    /\ renderCalls = <<>>
    /\ fsFirst = cfg.fs0
    /\ resultsFirst = <<>>

Init == InitWith(ConfigsWrite \cup ConfigsDiag)

InitUnbatched == InitWith(ConfigsUnbatched)

InitBatches == InitWith(ConfigsBatches)

InitFaults == InitWith(ConfigsFault)

\* compileFilesParallel is entered directly, or getCompilationStats is about
\* to be called on a given result sequence
InitStats ==
    /\ \/ /\ cfg \in ConfigsPhase2
          /\ pc = "start"
          /\ results = <<>>
          /\ sink = cfg.sink0
       \/ /\ results \in GivenResults
          /\ cfg = ConfigGiven(Len(results))
          /\ pc = "collect"
          /\ sink = <<>>
    /\ run = 1
    /\ fs = cfg.fs0
    /\ transformedOut = {}
    /\ astResults = <<>>
    /\ renderTasks = <<>>
    /\ allDiagnostics = <<>>
    /\ batches = <<>>
    /\ batchIdx = 1
    /\ task = <<>>
    /\ emittedFiles = <<>>
    /\ stats = NoStats
    /\ ret = NoReturn
    /\ transformCalls = <<>>
    /\ renderCalls = <<>>
    /\ fsFirst = cfg.fs0
    /\ resultsFirst = <<>>

(***************************************************************************)
(* Actions                                                                 *)
(***************************************************************************)
\* Step 0 and the sink check that follows it. The custom transformers'
\* diagnostics go to the sink and, with writeTransformedFiles, every
\* transformed source file is written out, before the sink is checked.
\* The unbatched variant has no step 0 and no sink check, and neither has
\* compileFilesParallel called on its own.
PluginStage ==
    /\ pc = "start"
    /\ LET ran      == cfg.variant = "batched" /\ cfg.plugin.active
           sinkNow  == IF ran THEN sink \o PluginDiagnostics ELSE sink
           outNow   == IF ran /\ cfg.plugin.writeTransformedFiles
                       THEN transformedOut \cup SourceFiles ELSE transformedOut
           stop     == cfg.variant = "batched" /\ SinkHasErrors(sinkNow)
       IN  /\ transformedOut' = outNow
           /\ sink' = IF stop THEN <<>> ELSE sinkNow
           /\ ret' = IF stop THEN ReturnSkipped(sinkNow) ELSE ret
           /\ pc' = IF stop THEN "done" ELSE "transform"
    /\ UNCHANGED <<cfg, resultsFirst, renderTasks, run, fs, astResults, results, allDiagnostics, batches,
                   batchIdx, task, emittedFiles, stats, transformCalls, renderCalls,
                   fsFirst>>

\* One iteration of the transform loop of compileFilesParallelPhase2.
TransformStep ==
    /\ pc = "transform"
    /\ RenderMode # "single"
    /\ ~TransformLoopDone
    /\ LET f == Len(astResults) + 1
           c == compileSingleFileToAST(f, sink)
       IN  /\ astResults' = Append(astResults, c.result)
           /\ sink' = c.sink
           /\ transformCalls' = IF c.invoked THEN Append(transformCalls, f)
                                 ELSE transformCalls
    /\ UNCHANGED <<cfg, resultsFirst, renderTasks, run, pc, fs, transformedOut, results, allDiagnostics, batches,
                   batchIdx, task, emittedFiles, stats, ret, renderCalls, fsFirst>>

\* Step 2 of compileFilesParallelPhase2: astResults.map(...), then return.
RenderStep ==
    /\ pc = "transform"
    /\ RenderMode = "sync"
    /\ TransformLoopDone
    /\ results' = [k \in 1..Len(astResults) |-> RenderOne(astResults[k])]
    /\ renderCalls' = SelectSeq([k \in 1..Len(astResults) |-> astResults[k]],
                                LAMBDA r : r.luauAST # NullAST)
    /\ pc' = "collect"
    /\ UNCHANGED <<cfg, resultsFirst, renderTasks, run, sink, fs, transformedOut, astResults, allDiagnostics,
                   batches, batchIdx, task, emittedFiles, stats, ret, transformCalls,
                   fsFirst>>

\* Step 2 of the async-render compileFilesParallelPhase2:
\* astResults.map(async astResult => ...). Every task runs to its first await:
\* a task with a null AST returns at once, the others call renderAST, in input
\* order, and await the text.
RenderStart ==
    /\ pc = "transform"
    /\ RenderMode = "async"
    /\ TransformLoopDone
    /\ renderTasks' = [k \in 1..Len(astResults) |->
                         [pc    |-> IF astResults[k].luauAST = NullAST THEN "done" ELSE "await",
                          value |-> RenderOne(astResults[k])]]
    /\ renderCalls' = SelectSeq([k \in 1..Len(astResults) |-> astResults[k]],
                                LAMBDA r : r.luauAST # NullAST)
    /\ pc' = "render"
    /\ UNCHANGED <<cfg, resultsFirst, run, sink, fs, transformedOut, astResults, results, allDiagnostics,
                   batches, batchIdx, task, emittedFiles, stats, ret, transformCalls,
                   fsFirst>>

\* await Promise.resolve(renderAST(...)) resumes in render task k, which returns.
RenderResolve(k) ==
    /\ pc = "render"
    /\ renderTasks[k].pc = "await"
    /\ renderTasks' = [renderTasks EXCEPT ![k].pc = "done"]
    /\ UNCHANGED <<cfg, resultsFirst, run, pc, sink, fs, transformedOut, astResults, results,
                   allDiagnostics, batches, batchIdx, task, emittedFiles, stats, ret,
                   transformCalls, renderCalls, fsFirst>>

\* await Promise.all(renderTasks) resumes: the values, in the order of the tasks.
RenderJoin ==
    /\ pc = "render"
    /\ \A k \in 1..Len(renderTasks) : renderTasks[k].pc = "done"
    /\ results' = [k \in 1..Len(renderTasks) |-> renderTasks[k].value]
    /\ pc' = "collect"
    /\ UNCHANGED <<cfg, resultsFirst, renderTasks, run, sink, fs, transformedOut, astResults,
                   allDiagnostics, batches, batchIdx, task, emittedFiles, stats, ret,
                   transformCalls, renderCalls, fsFirst>>

\* Collect all diagnostics, return if any is an error, else form the batches.
Collect ==
    /\ pc = "collect"
    /\ LET diags == CollectDiagnostics(results)
       IN  /\ allDiagnostics' = diags
           /\ IF RunHasErrors(diags)
              THEN /\ ret' = ReturnSkipped(diags)
                   /\ pc' = "done"
                   /\ UNCHANGED <<batches, task>>
              ELSE /\ batches' = FormBatches(Len(results), cfg.batchSize)
                   /\ task' = [k \in 1..Len(results) |-> [pc |-> "idle", value |-> NoPath]]
                   /\ pc' = "batchLoop"
                   /\ ret' = ret
    /\ UNCHANGED <<cfg, resultsFirst, renderTasks, run, sink, fs, transformedOut, astResults, results, batchIdx,
                   emittedFiles, stats, transformCalls, renderCalls, fsFirst>>

\* mutant: the tasks are mapped over all results, not over the batch
InBatchAll(j) == 1..Len(results)

\* The indices of the results in the batch the loop is at.
InBatch(j) == { batches[j][k] : k \in 1..Len(batches[j]) }

\* batch.map(async result => ...): every task of the batch runs to its first await.
StartBatch ==
    /\ pc = "batchLoop"
    /\ batchIdx <= Len(batches)
    /\ task' = [k \in 1..Len(results) |->
                  IF k \in InBatch(batchIdx) THEN TaskStart(results[k]) ELSE task[k]]
    /\ pc' = "await"
    /\ UNCHANGED <<cfg, resultsFirst, renderTasks, run, sink, fs, transformedOut, astResults, results,
                   allDiagnostics, batches, batchIdx, emittedFiles, stats, ret,
                   transformCalls, renderCalls, fsFirst>>

\* The write tasks are not tied to the call that created them: they go on
\* when the await on Promise.all has thrown.

\* await fs.pathExists(outPath) completes for task k.
PathExists(k) ==
    /\ pc \in {"await", "thrown"}
    /\ task[k].pc = "pathExists"
    /\ LET outPath == getOutputPath(results[k].sourceFile)
       IN  task' = [task EXCEPT ![k].pc = IF fs[outPath] # ABSENT THEN "readFile"
                                          ELSE "outputFile"]
    /\ UNCHANGED <<cfg, resultsFirst, renderTasks, run, pc, sink, fs, transformedOut, astResults, results,
                   allDiagnostics, batches, batchIdx, emittedFiles, stats, ret,
                   transformCalls, renderCalls, fsFirst>>

\* await fs.readFile(outPath, "utf8") completes for task k; the comparison
\* decides shouldWrite.
ReadFile(k) ==
    /\ pc \in {"await", "thrown"}
    /\ task[k].pc = "readFile"
    /\ LET outPath == getOutputPath(results[k].sourceFile)
       IN  task' = [task EXCEPT ![k].pc = IF ContentDiffers(fs[outPath], results[k].source)
                                          THEN "outputFile" ELSE "done"]
    /\ UNCHANGED <<cfg, resultsFirst, renderTasks, run, pc, sink, fs, transformedOut, astResults, results,
                   allDiagnostics, batches, batchIdx, emittedFiles, stats, ret,
                   transformCalls, renderCalls, fsFirst>>

\* mutant: outPath is taken from the first result, not from the task's own
OutputFileFirstPath(k) ==
    /\ pc \in {"await", "thrown"}
    /\ task[k].pc = "outputFile"
    /\ LET outPath == getOutputPath(results[1].sourceFile)
       IN  /\ fs' = [fs EXCEPT ![outPath] = results[k].source]
           /\ task' = [task EXCEPT ![k] = [pc |-> "done", value |-> outPath]]
    /\ UNCHANGED <<cfg, resultsFirst, renderTasks, run, pc, sink, transformedOut, astResults, results,
                   allDiagnostics, batches, batchIdx, emittedFiles, stats, ret,
                   transformCalls, renderCalls, fsFirst>>

\* await fs.outputFile(outPath, result.source) completes for task k, which
\* returns outPath.
OutputFile(k) ==
    /\ pc \in {"await", "thrown"}
    /\ task[k].pc = "outputFile"
    /\ LET outPath == getOutputPath(results[k].sourceFile)
       IN  /\ fs' = [fs EXCEPT ![outPath] = results[k].source]
           /\ task' = [task EXCEPT ![k] = [pc |-> "done", value |-> outPath]]
    /\ UNCHANGED <<cfg, resultsFirst, renderTasks, run, pc, sink, transformedOut, astResults, results,
                   allDiagnostics, batches, batchIdx, emittedFiles, stats, ret,
                   transformCalls, renderCalls, fsFirst>>

\* mutant: Promise.allSettled in place of Promise.all
BatchResolvedSettled(j) == \A k \in InBatch(j) : task[k].pc \in {"done", "faulted"}

\* Promise.all(writeTasks) fulfils: every task of the batch returned
BatchResolved(j) == \A k \in InBatch(j) : task[k].pc = "done"

\* Promise.all(writeTasks) rejects: a task of the batch threw
BatchRejected(j) == \E k \in InBatch(j) : task[k].pc = "faulted"

\* await Promise.all(writeTasks) resumes; the written paths are pushed.
FinishBatch ==
    /\ pc = "await"
    /\ BatchResolved(batchIdx)
    /\ emittedFiles' = emittedFiles \o WrittenOf(batches[batchIdx])
    /\ batchIdx' = batchIdx + 1
    /\ pc' = "batchLoop"
    /\ UNCHANGED <<cfg, resultsFirst, renderTasks, run, sink, fs, transformedOut, astResults, results,
                   allDiagnostics, batches, task, stats, ret, transformCalls,
                   renderCalls, fsFirst>>

\* The file-system call task k awaits rejects, and the task with it. A
\* rejected fs.outputFile may have left the file untouched or partly written.
Fault(k) ==
    /\ pc \in {"await", "thrown"}
    /\ task[k].pc \in {"pathExists", "readFile", "outputFile"}
    /\ task' = [task EXCEPT ![k].pc = "faulted"]
    /\ \/ fs' = fs
       \/ /\ task[k].pc = "outputFile"
          /\ fs' = [fs EXCEPT ![getOutputPath(results[k].sourceFile)] = PARTIAL]
    /\ UNCHANGED <<cfg, resultsFirst, renderTasks, run, pc, sink, transformedOut,
                   astResults, results, allDiagnostics, batches, batchIdx, emittedFiles,
                   stats, ret, transformCalls, renderCalls, fsFirst>>

\* await Promise.all(writeTasks) throws: nothing catches it, the call rejects.
Abort ==
    /\ pc = "await"
    /\ BatchRejected(batchIdx)
    /\ pc' = "thrown"
    /\ UNCHANGED <<cfg, resultsFirst, renderTasks, run, sink, fs, transformedOut,
                   astResults, results, allDiagnostics, batches, batchIdx, task,
                   emittedFiles, stats, ret, transformCalls, renderCalls, fsFirst>>

\* After the last batch: the statistics and the return value.
Report ==
    /\ pc = "batchLoop"
    /\ batchIdx > Len(batches)
    /\ stats' = ComputeStats(results, allDiagnostics, emittedFiles)
    /\ ret' = ReturnEmitted(allDiagnostics, emittedFiles)
    /\ pc' = "done"
    /\ UNCHANGED <<cfg, resultsFirst, renderTasks, run, sink, fs, transformedOut, astResults, results,
                   allDiagnostics, batches, batchIdx, task, emittedFiles,
                   transformCalls, renderCalls, fsFirst>>

\* The caller runs compileAndWriteFilesParallel, or compileFilesParallel,
\* again at once on the same inputs: the locals are fresh, the sink and the
\* file system are as the first call left them.
Rerun ==
    /\ pc = "done"
    /\ run = 1
    /\ cfg.repeat
    /\ run' = 2
    /\ pc' = "start"
    /\ fsFirst' = fs
    /\ astResults' = <<>>
    /\ renderTasks' = <<>>
    /\ results' = <<>>
    /\ allDiagnostics' = <<>>
    /\ batches' = <<>>
    /\ batchIdx' = 1
    /\ task' = <<>>
    /\ emittedFiles' = <<>>
    /\ stats' = NoStats
    /\ ret' = NoReturn
    /\ transformCalls' = <<>>
    /\ renderCalls' = <<>>
    /\ resultsFirst' = results
    /\ UNCHANGED <<cfg, sink, fs, transformedOut>>

\* One iteration of the loop of the single-pass compileFilesParallel.
CompileStep ==
    /\ pc = "transform"
    /\ RenderMode = "single"
    /\ ~SinglePassDone
    /\ LET f == Len(results) + 1
           c == compileSingleFile(f, sink)
       IN  /\ results' = Append(results, c.result)
           /\ sink' = c.sink
           /\ transformCalls' = IF c.invoked THEN Append(transformCalls, f)
                                 ELSE transformCalls
           /\ renderCalls' = IF c.rendered
                              THEN Append(renderCalls, [sourceFile |-> f, luauAST |-> AstOf(f),
                                                        diagnostics |-> c.result.diagnostics])
                              ELSE renderCalls
    /\ UNCHANGED <<cfg, resultsFirst, renderTasks, run, pc, fs, transformedOut, astResults,
                   allDiagnostics, batches, batchIdx, task, emittedFiles, stats, ret,
                   fsFirst>>

\* The single-pass compileFilesParallel returns its results.
CompileReturn ==
    /\ pc = "transform"
    /\ RenderMode = "single"
    /\ SinglePassDone
    /\ pc' = "collect"
    /\ UNCHANGED <<cfg, resultsFirst, renderTasks, run, sink, fs, transformedOut, astResults,
                   results, allDiagnostics, batches, batchIdx, task, emittedFiles, stats,
                   ret, transformCalls, renderCalls, fsFirst>>

\* The caller hands the results of compileFilesParallel to getCompilationStats.
GetStats ==
    /\ pc = "collect"
    /\ cfg.variant \in {"phase2", "given"}
    /\ stats' = getCompilationStats(results)
    /\ pc' = "done"
    /\ UNCHANGED <<cfg, resultsFirst, renderTasks, run, sink, fs, transformedOut, astResults, results,
                   allDiagnostics, batches, batchIdx, task, emittedFiles, ret,
                   transformCalls, renderCalls, fsFirst>>

Next ==
    \/ PluginStage
    \/ TransformStep
    \/ RenderStep
    \/ RenderStart
    \/ \E k \in 1..Len(renderTasks) : RenderResolve(k)
    \/ RenderJoin
    \/ Collect
    \/ StartBatch
    \/ \E k \in 1..Len(task) : PathExists(k)
    \/ \E k \in 1..Len(task) : ReadFile(k)
    \/ \E k \in 1..Len(task) : OutputFile(k)
    \/ FinishBatch
    \/ Report
    \/ Rerun

Spec == Init /\ [][Next]_vars

SpecUnbatched == InitUnbatched /\ [][Next]_vars

SpecBatches == InitBatches /\ [][Next]_vars

\* the pipeline on a file system whose calls may fail
NextFaults ==
    \/ Next
    \/ \E k \in 1..Len(task) : Fault(k)
    \/ Abort

SpecFaults == InitFaults /\ [][NextFaults]_vars

\* The pipeline on a file system whose calls all complete. The event loop
\* runs every continuation that is ready, so a step that stays possible is
\* eventually taken.
SpecLive == InitFaults /\ [][Next]_vars /\ WF_vars(Next)

\* compileFilesParallel and getCompilationStats without the write stage
NextStats ==
    \/ PluginStage
    \/ CompileStep
    \/ CompileReturn
    \/ TransformStep
    \/ RenderStep
    \/ RenderStart
    \/ \E k \in 1..Len(renderTasks) : RenderResolve(k)
    \/ RenderJoin
    \/ GetStats
    \/ Rerun

SpecStats == InitStats /\ [][NextStats]_vars

(***************************************************************************)
(* Vocabulary of the properties                                            *)
(***************************************************************************)
CatsError(cats) == \E k \in 1..Len(cats) : cats[k] = "Error"

\* file f's pre-checks or transformer reports contain an Error
UnitError(f) == CatsError(cfg.pre[f]) \/ CatsError(cfg.tr[f])

\* the smallest index whose unit has an Error; n + 1 when there is none
FirstError ==
    IF \E f \in SourceFiles : UnitError(f)
    THEN CHOOSE f \in SourceFiles : UnitError(f) /\ \A g \in 1..(f - 1) : ~UnitError(g)
    ELSE cfg.n + 1

\* the number of results a run must produce
ExpectedLen == Min(FirstError, cfg.n)

\* compileFilesParallelPhase2 has returned its results
Phase2Returned == pc \in {"collect", "batchLoop", "await"} \/ (pc = "done" /\ Len(results) > 0)

\* the file system at the start of the current call
StartFs == IF run = 1 THEN cfg.fs0 ELSE fsFirst

Returned == pc = "done" /\ ret.returned

Succeeded == Returned /\ ~ret.emitSkipped

DistinctPaths == \A f, g \in SourceFiles : getOutputPath(f) = getOutputPath(g) => f = g

\* every file named by a diagnostic of the sequence
DiagFiles(diags) == { diags[k].file : k \in 1..Len(diags) }

SeqRange(q) == { q[k] : k \in 1..Len(q) }

\* write tasks that have started and not yet completed
InFlight == { k \in 1..Len(task) : task[k].pc \in {"pathExists", "readFile", "outputFile"} }

\* the batch a result index belongs to
BatchOf(k) == CHOOSE j \in 1..Len(batches) : \E i \in 1..Len(batches[j]) : batches[j][i] = k

RECURSIVE Flatten(_)
Flatten(bs) == IF bs = <<>> THEN <<>> ELSE Head(bs) \o Flatten(Tail(bs))

(***************************************************************************)
(* Properties                                                              *)
(***************************************************************************)
\* C1. Fail-fast prefix: the results of compileFilesParallelPhase2 are one per
\* file of the input up to and including the first file with an Error, in
\* input order, text present before that file and absent for it; no file after
\* it is transformed, rendered or written, and none of its diagnostics appears.
\* Without an Error there is one result per file.
C1_FailFastPrefix ==
    /\ Phase2Returned =>
          /\ Len(results) = ExpectedLen
          /\ \A k \in 1..Len(results) :
                /\ results[k].sourceFile = k
                /\ (results[k].source = NULL) <=> (k = FirstError)
    /\ SeqRange(transformCalls) \subseteq 1..ExpectedLen
    /\ \A k \in 1..Len(renderCalls) : renderCalls[k].sourceFile < FirstError
    /\ Len(astResults) <= ExpectedLen
    /\ \A k \in 1..Len(astResults) : DiagFiles(astResults[k].diagnostics) \subseteq 0..ExpectedLen
    /\ DiagFiles(allDiagnostics) \cup DiagFiles(ret.diagnostics) \cup DiagFiles(sink) \subseteq 0..ExpectedLen
    /\ FirstError <= cfg.n => /\ task = <<>>
                              /\ fs = StartFs

C1_Witness ==
    /\ pc = "collect"
    /\ cfg.n = 3
    /\ FirstError = 2
    /\ Len(results) = 2
    /\ results[1].source # NULL
    /\ results[2].source = NULL

\* C2 as stated: in a run that collected an Error the result is emitSkipped
\* with no emitted-file list, and no file at all was persisted during the run.
C2_NoFilePersisted ==
    (Returned /\ SomeError(ret.diagnostics)) =>
        /\ ret.emitSkipped
        /\ ~ret.hasEmittedFiles
        /\ fs = StartFs
        /\ transformedOut = {}

\* C2, amended: in a run that collected an Error the result is emitSkipped
\* with no emitted-file list, no write task was created and no destination
\* path was written; only step 0 may have written transformed sources.
C2_NoPartialEmission ==
    (Returned /\ SomeError(ret.diagnostics)) =>
        /\ ret.emitSkipped
        /\ ~ret.hasEmittedFiles
        /\ fs = StartFs
        /\ task = <<>>
        /\ emittedFiles = <<>>

C2_Witness ==
    /\ Returned
    /\ SomeError(ret.diagnostics)
    /\ Len(results) = 3
    /\ results[1].source = "a"
    /\ results[2].source = "a"
    /\ \A q \in Paths(cfg.n) : cfg.fs0[q] = ABSENT

DiffersBefore == { k \in 1..Len(results) :
                    StartFs[getOutputPath(results[k].sourceFile)] # results[k].source }

C5_WrittenPlusSkipped ==
    Succeeded =>
        /\ stats.written = Len(ret.emittedFiles)
        /\ stats.written + stats.skipped
             = Cardinality({ k \in 1..Len(results) : results[k].source # NULL })
        /\ stats.written >= 0
        /\ stats.skipped >= 0

C5_Witness ==
    /\ Succeeded
    /\ stats.written = 2
    /\ stats.skipped = 1

\* C6 as stated: with writeOnlyChanged, the second of two calls in immediate
\* succession emits nothing and leaves the file system as the first left it.
C6_IdempotentOriginal ==
    (Succeeded /\ run = 2 /\ cfg.writeOnlyChanged) =>
        /\ ret.emittedFiles = <<>>
        /\ fs = fsFirst

\* C6, amended: the same, for destination paths that are pairwise distinct.
C6_Idempotent ==
    (Succeeded /\ run = 2 /\ cfg.writeOnlyChanged /\ DistinctPaths) =>
        /\ ret.emittedFiles = <<>>
        /\ fs = fsFirst

C6_Witness ==
    /\ Succeeded
    /\ run = 2
    /\ cfg.writeOnlyChanged
    /\ DistinctPaths
    /\ cfg.n = 3
    /\ \E q \in Paths(cfg.n) : fsFirst[q] # cfg.fs0[q]
    /\ ret.emittedFiles = <<>>

\* the destinations that hold, before the call, something else than a
\* non-empty text rendered for them (all such destinations without
\* writeOnlyChanged): a function of the inputs alone
ExpectedWritten ==
    { getOutputPath(f) : f \in { g \in SourceFiles :
          /\ Truthy(cfg.text[g])
          /\ (cfg.writeOnlyChanged => StartFs[getOutputPath(g)] # cfg.text[g]) } }

\* C7. Order-independence: without an Error, the set of paths in emittedFiles
\* is determined by the inputs and the initial file system, whatever the
\* order in which the file-system steps of the write tasks complete.
C7_OrderIndependent ==
    Succeeded => SeqRange(ret.emittedFiles) = ExpectedWritten

C7_Witness ==
    /\ Succeeded
    /\ cfg.writeOnlyChanged
    /\ ~DistinctPaths
    /\ Len(batches) = 1
    /\ Len(batches[1]) = 3
    /\ Len(ret.emittedFiles) = 2
    /\ Cardinality(ExpectedWritten) = 1

\* C8. Write concurrency cap: the write tasks that have started and not yet
\* completed are never more than the batch size.
C8_WriteConcurrencyCap == Cardinality(InFlight) <= cfg.batchSize

\* C9. Batch sequencing: a write task of a later batch has not started while
\* a task of an earlier batch has not completed.
C9_BatchSequencing ==
    \A k, m \in 1..Len(task) :
        (BatchOf(k) < BatchOf(m) /\ task[m].pc # "idle") => task[k].pc = "done"

\* the second batch is in flight after the two tasks of the first
\* interleaved their steps and completed
C9_Witness ==
    /\ pc = "await"
    /\ batchIdx = 2
    /\ Len(batches[1]) = 2
    /\ task[3].pc = "outputFile"
    /\ task[1].value # NoPath
    /\ task[2].value # NoPath

\* C10. Batch partition: the batches are ceil(n / B) contiguous runs of the
\* results in input order, all of size B but possibly the last, none empty,
\* every result in exactly one batch; every result has its text present.
C10_BatchPartition ==
    pc \in {"batchLoop", "await"} =>
        LET n == Len(results)
            B == cfg.batchSize
        IN  /\ \A k \in 1..n : results[k].source # NULL
            /\ Len(batches) = (n + B - 1) \div B
            /\ \A j \in 1..Len(batches) : Len(batches[j]) >= 1
            /\ \A j \in 1..(Len(batches) - 1) : Len(batches[j]) = B
            /\ Flatten(batches) = [k \in 1..n |-> k]

C10_Witness ==
    /\ pc = "batchLoop"
    /\ cfg.batchSize = 2
    /\ Len(results) = 5
    /\ Len(batches) = 3
    /\ Len(batches[1]) = 2
    /\ Len(batches[2]) = 2
    /\ Len(batches[3]) = 1

\* the destination of result k
OutPathOf(k) == getOutputPath(results[k].sourceFile)

\* the destination of result k exists and holds exactly the text of result k
SameAtDestination(k) == fs[OutPathOf(k)] # ABSENT /\ fs[OutPathOf(k)] = results[k].source

\* One step of the write stage obeys the write-skip rule for result k: a task
\* completes without a path only when writeOnlyChanged is set and the
\* destination holds the same text; a task turns to writing only when that is
\* not so, and at once when the flag is not set; a writing task leaves the text
\* at the destination and resolves to the destination path.
WriteSkipStep(k) ==
    LET same == cfg.writeOnlyChanged /\ SameAtDestination(k)
    IN  /\ (task[k].pc # "done" /\ task'[k].pc = "done" /\ task'[k].value = NoPath) => same
        /\ (task[k].pc # "outputFile" /\ task'[k].pc = "outputFile") => ~same
        /\ (task[k].pc = "idle" /\ task'[k].pc # "idle" /\ ~cfg.writeOnlyChanged)
              => task'[k].pc = "outputFile"
        /\ (task[k].pc = "outputFile" /\ task'[k].pc = "done")
              => /\ fs'[OutPathOf(k)] = results[k].source
                 /\ task'[k].value = OutPathOf(k)

\* the paths the write tasks resolved to are the paths of emittedFiles
WrittenRecorded ==
    Succeeded =>
        /\ \A k \in 1..Len(task) : task[k].pc = "done"
        /\ SeqRange(ret.emittedFiles)
             = { task[k].value : k \in { m \in 1..Len(task) : task[m].value # NoPath } }

\* C11. Write-skip rule: for every result with text present, the write is
\* skipped if and only if writeOnlyChanged is set and the destination exists
\* with content identical to the text; in every other case the text is
\* persisted to the destination and the path is recorded in emittedFiles.
C11_WriteSkipRule ==
    /\ []WrittenRecorded
    /\ [][\A k \in 1..Min(Len(task), Len(task')) :
             results[k].source # NULL => WriteSkipStep(k)]_vars

\* the rule restricted to results whose text is not the empty string
C11_NonEmptyRule ==
    /\ []WrittenRecorded
    /\ [][\A k \in 1..Min(Len(task), Len(task')) :
             Truthy(results[k].source) => WriteSkipStep(k)]_vars

\* C12. A result whose text is absent never reaches the write stage: no write
\* task exists in a run that has such a result, nothing is read from or
\* written to its destination, and emittedFiles stays empty.
C12_AbsentNeverWritten ==
    \A k \in 1..Len(results) :
        results[k].source = NULL =>
            /\ task = <<>>
            /\ batches = <<>>
            /\ fs[OutPathOf(k)] = StartFs[OutPathOf(k)]
            /\ emittedFiles = <<>>
            /\ ~ret.hasEmittedFiles

\* the run returned with the text of the second file absent, after the first
\* file was rendered and its destination was missing
C12_Witness ==
    /\ Returned
    /\ Len(results) = 2
    /\ results[1].source = "a"
    /\ results[2].source = NULL
    /\ ~SomeError(results[1].diagnostics)
    /\ results[1].diagnostics # <<>>
    /\ fs[OutPathOf(1)] = ABSENT

\* C13. Render alignment: the rendered results are as many as the transform
\* results and result i is for the file of transform result i with the same
\* diagnostics; with a null AST the text is absent and renderAST was not
\* called for the file, otherwise the text is what renderAST returns for
\* that AST. This holds whichever order the async render tasks resume in.
C13_RenderAlignment ==
    /\ Phase2Returned =>
          /\ Len(results) = Len(astResults)
          /\ \A k \in 1..Len(results) :
                /\ results[k].sourceFile = astResults[k].sourceFile
                /\ results[k].diagnostics = astResults[k].diagnostics
                /\ astResults[k].luauAST = NullAST =>
                      /\ results[k].source = NULL
                      /\ \A c \in 1..Len(renderCalls) :
                            renderCalls[c].sourceFile # astResults[k].sourceFile
                /\ astResults[k].luauAST # NullAST =>
                      /\ results[k].source = renderAST(astResults[k].luauAST)
                      /\ \E c \in 1..Len(renderCalls) : renderCalls[c] = astResults[k]
    /\ pc \in {"start", "transform", "render"} => results = <<>>

\* the async render tasks have been joined: two rendered results that carry
\* diagnostics and one with a null AST
C13_Witness ==
    /\ pc = "collect"
    /\ cfg.render = "async"
    /\ Len(results) = 3
    /\ results[1].source = "a" /\ results[1].diagnostics # <<>>
    /\ results[2].source = "a" /\ results[2].diagnostics # <<>>
    /\ results[3].source = NULL
    /\ Len(results[3].diagnostics) = 3

\* what was produced for file f: its pre-checks, followed by what the
\* transformer reported for it when the pre-checks let it run
ProducedFor(f) ==
    IF CatsError(cfg.pre[f])
    THEN PreEmitDiagnostics(f)
    ELSE PreEmitDiagnostics(f) \o TransformReports(f)

\* every transform result holds the diagnostics produced for its file, and the
\* files were transformed one at a time in input order
AttributedToOwnUnit ==
    /\ \A k \in 1..Len(astResults) :
          astResults[k].diagnostics = ProducedFor(astResults[k].sourceFile)
    /\ \A k \in 1..Len(results) :
          results[k].diagnostics = ProducedFor(results[k].sourceFile)
    /\ \A i, j \in 1..Len(transformCalls) : i < j => transformCalls[i] < transformCalls[j]

\* C14. Diagnostic attribution: the files are transformed one at a time in
\* input order and the result of each file holds exactly the diagnostics
\* produced for that file, its pre-checks followed by the transformer's
\* reports, and none produced for another file or by another stage.
C14_DiagnosticAttribution == AttributedToOwnUnit

\* the same for the runs in which the custom transformers of step 0 report
\* nothing
C14_WithoutPluginDiagnostics == cfg.plugin.diags = <<>> => AttributedToOwnUnit

\* no diagnostic of the sequence is an Error
OnlyWarnings(diags) == \A k \in 1..Len(diags) : diags[k].category \in {"Warning", "Message"}

\* C15. Warning and Message diagnostics never halt: a file whose diagnostics
\* are all Warning or Message gets a result with its AST and its text present,
\* the transform loop goes on after it to the last file, and a run in which no
\* diagnostic is an Error creates its write tasks and returns emitSkipped =
\* false.
C15_WarningsNeverHalt ==
    /\ \A k \in 1..Len(astResults) :
          OnlyWarnings(astResults[k].diagnostics) => astResults[k].luauAST # NullAST
    /\ \A k \in 1..Len(results) :
          OnlyWarnings(results[k].diagnostics) => results[k].source # NULL
    /\ (pc \notin {"start", "transform"}
          /\ \A k \in 1..Len(astResults) : OnlyWarnings(astResults[k].diagnostics))
         => (ret.returned /\ ret.emitSkipped) \/ Len(astResults) = cfg.n
    /\ (Returned /\ OnlyWarnings(PluginDiagnostics) /\ \A f \in SourceFiles : ~UnitError(f))
         => /\ ~ret.emitSkipped
            /\ Len(task) = cfg.n
            /\ Len(results) = cfg.n
            /\ OnlyWarnings(ret.diagnostics)

\* a run of three files, each with Warning and Message diagnostics, after a
\* custom transformer reported a Warning, has written all three
C15_Witness ==
    /\ Succeeded
    /\ cfg.plugin.diags = <<"Warning">>
    /\ Len(results) = 3
    /\ \A k \in 1..3 : Len(results[k].diagnostics) >= 2
    /\ Len(ret.emittedFiles) = 3

RECURSIVE DiagnosticsUpTo(_)
\* the diagnostics of the first k transform results, one result after the other
DiagnosticsUpTo(k) ==
    IF k = 0 THEN <<>> ELSE DiagnosticsUpTo(k - 1) \o astResults[k].diagnostics

\* the call went past the check that follows step 0
ReachedTransform == pc # "start" /\ ~(ret.returned /\ ret.emitSkipped /\ astResults = <<>>)

\* C16. Diagnostics are reported, not swallowed: when the run went into the
\* transform loop, the diagnostics it returns are the diagnostics of the
\* results of all processed files, concatenated in file order, whether the
\* run returns emitSkipped = true or false.
C16_DiagnosticsConcatenated ==
    (Returned /\ ReachedTransform) =>
        /\ ret.diagnostics = DiagnosticsUpTo(Len(astResults))
        /\ Len(results) = Len(astResults)
        /\ Len(astResults) = ExpectedLen

\* a failed run over three files returned the seven diagnostics of its results
C16_Witness ==
    /\ Returned
    /\ ret.emitSkipped
    /\ Len(results) = 3
    /\ \A k \in 1..3 : results[k].diagnostics # <<>>
    /\ Len(ret.diagnostics) = 7

\* C17. Reporter division safety: whenever the report computes the average
\* time per file, the divisor, the total number of results, is not 0; a run
\* over an empty source-file list does not divide by zero.
C17_ReporterDivisionSafe == Succeeded => AverageDivisor(stats) # 0

RECURSIVE DiagnosticCount(_)
\* the number of diagnostics the first k results hold
DiagnosticCount(k) == IF k = 0 THEN 0 ELSE DiagnosticCount(k - 1) + Len(results[k].diagnostics)

\* statistics have been computed for the results
StatsComputed == pc = "done" /\ (Succeeded \/ cfg.variant \in {"phase2", "given"})

\* C18. Statistics partition: the statistics of a result sequence have
\* successful + failed = total, total the number of results, successful the
\* number with text present, failed the number with text absent, and
\* totalDiagnostics the sum of the lengths of the results' diagnostics; when
\* the results come from a compilation in which no file has an Error, total
\* is the number of source files.
C18_StatsPartition ==
    StatsComputed =>
        /\ stats.total = Len(results)
        /\ stats.successful = Cardinality({ k \in 1..Len(results) : results[k].source # NULL })
        /\ stats.failed = Cardinality({ k \in 1..Len(results) : results[k].source = NULL })
        /\ stats.successful + stats.failed = stats.total
        /\ stats.totalDiagnostics = DiagnosticCount(Len(results))
        /\ (cfg.variant # "given" /\ \A f \in SourceFiles : ~UnitError(f)) => stats.total = cfg.n

\* statistics of three results: one with text, one with empty text, one
\* without text, five diagnostics in all
C18_Witness ==
    /\ StatsComputed
    /\ stats.total = 3
    /\ stats.successful = 2
    /\ stats.failed = 1
    /\ stats.totalDiagnostics = 5
    /\ \E k \in 1..3 : results[k].source = ""

\* C19. Determinism: two calls of compileFilesParallel on the same source
\* files, with the same outcomes of transformSourceFile and renderAST for
\* each file, return results of equal length that agree at every index on the
\* source file and on the rendered text.
C19_Deterministic ==
    (cfg.variant = "phase2" /\ run = 2 /\ pc = "done") =>
        /\ Len(results) = Len(resultsFirst)
        /\ \A k \in 1..Len(results) :
              /\ results[k].sourceFile = resultsFirst[k].sourceFile
              /\ results[k].source = resultsFirst[k].source

\* the second call returned: two rendered results and one without text,
\* after the transformer reported on every file, rendered by async tasks
C19_Witness ==
    /\ cfg.variant = "phase2"
    /\ cfg.render = "async"
    /\ run = 2
    /\ pc = "done"
    /\ Len(resultsFirst) = 3
    /\ results[1].source = ""
    /\ results[2].source = "a"
    /\ results[3].source = NULL
    /\ \A k \in 1..3 : cfg.tr[k] # <<>>

\* the results of the files whose pre-checks contain an Error: no AST,
\* exactly the pre-check diagnostics, transformSourceFile not invoked on the
\* file, and no result after it
GatedResults ==
    \A k \in 1..Len(astResults) :
        LET f == astResults[k].sourceFile
        IN  CatsError(cfg.pre[f]) =>
              /\ astResults[k].luauAST = NullAST
              /\ astResults[k].diagnostics = PreEmitDiagnostics(f)
              /\ f \notin SeqRange(transformCalls)
              /\ k = Len(astResults)

\* the step that processes a file whose pre-checks contain an Error
GatedStep ==
    /\ Len(astResults') = Len(astResults) + 1
    /\ CatsError(cfg.pre[Len(astResults) + 1])

\* C20. Pre-check gate: for a file whose pre-emit diagnostics contain an
\* Error, transformSourceFile is not invoked and the sink is not drained; its
\* result has a null AST and exactly the pre-emit diagnostics, and the
\* transform loop stops with it.
C20_PreCheckGate ==
    /\ []GatedResults
    /\ [][GatedStep => (sink' = sink /\ transformCalls' = transformCalls)]_vars

\* the first of three files stopped at its pre-checks while the sink held a
\* diagnostic of the custom transformers; the loop has ended
C20_Witness ==
    /\ pc = "collect"
    /\ cfg.n = 3
    /\ Len(astResults) = 1
    /\ CatsError(cfg.pre[1])
    /\ sink # <<>>
    /\ transformCalls = <<>>

\* write tasks whose file-system call failed
Faulted == { k \in 1..Len(task) : task[k].pc = "faulted" }

\* C21. An I/O fault aborts the run: once a write task of batch j has failed,
\* the call never returns a result, no task of a batch after j is started,
\* the other tasks of batch j are not cancelled and go on to their next
\* file-system call, and what the batches before j wrote stays written.
C21_FaultAborts ==
    \A k \in Faulted :
        /\ ~ret.returned
        /\ pc \in {"await", "thrown"}
        /\ batchIdx = BatchOf(k)
        /\ \A m \in 1..Len(task) :
              /\ BatchOf(m) > BatchOf(k) => task[m].pc = "idle"
              /\ (BatchOf(m) = BatchOf(k) /\ task[m].pc = "pathExists") => ENABLED PathExists(m)
              /\ (BatchOf(m) = BatchOf(k) /\ task[m].pc = "readFile") => ENABLED ReadFile(m)
              /\ (BatchOf(m) = BatchOf(k) /\ task[m].pc = "outputFile") => ENABLED OutputFile(m)
              /\ BatchOf(m) < BatchOf(k) =>
                    /\ task[m].pc = "done"
                    /\ task[m].value # NoPath => fs[OutPathOf(m)] = results[m].source

\* the call has thrown in its second batch: the files of the first batch are
\* written, one task of the second batch failed, the other completed its write
C21_Witness ==
    /\ pc = "thrown"
    /\ cfg.n = 4
    /\ Len(batches) = 2
    /\ task[1].value # NoPath
    /\ fs[OutPathOf(1)] = "a"
    /\ task[2].value # NoPath
    /\ task[3].pc = "faulted"
    /\ task[4].value # NoPath

\* no diagnostic of the run's inputs is an Error
NoErrorInputs == ~CatsError(cfg.plugin.diags) /\ \A f \in SourceFiles : ~UnitError(f)

\* the call returned emitSkipped = false after every batch completed and
\* every write task ended with a path (written) or without one (skipped)
RunCompleted ==
    /\ Succeeded
    /\ Len(task) = cfg.n
    /\ batchIdx = Len(batches) + 1
    /\ \A k \in 1..Len(task) : task[k].pc = "done"
    /\ \A k \in 1..Len(task) : BatchOf(k) \in 1..Len(batches)

\* C22. Write liveness: in a run without an Error in which every file-system
\* call completes, every file's write task is started and ends written or
\* skipped, every batch completes and the call returns emitSkipped = false.
C22_WriteLiveness ==
    \A r \in {1, 2} :
        (run = r /\ pc = "start" /\ NoErrorInputs) ~> (run = r /\ RunCompleted)

\* five files in batches of 2, 2 and 1, all written
C22_Witness ==
    /\ RunCompleted
    /\ cfg.n = 5
    /\ cfg.batchSize = 2
    /\ Len(batches) = 3
    /\ Len(ret.emittedFiles) = 5

\* the results whose write task resolved to a path, in input order
WrittenUnits == SelectSeq([k \in 1..Len(task) |-> k], LAMBDA k : task[k].value # NoPath)

\* C23. Written paths are correlated by unit, not by completion order:
\* whatever order the write tasks complete in, emittedFiles is the
\* destinations of the written files in the order of the input, one entry
\* for each written file.
C23_EmittedInUnitOrder ==
    /\ pc \in {"batchLoop", "await"} =>
          \E m \in 0..Len(WrittenUnits) :
              emittedFiles = [i \in 1..m |-> OutPathOf(WrittenUnits[i])]
    /\ Succeeded =>
          ret.emittedFiles = [i \in 1..Len(WrittenUnits) |-> OutPathOf(WrittenUnits[i])]

\* the tasks of one batch wrote the first and the third of three files and
\* skipped the second, whose destination held its text
C23_Witness ==
    /\ Succeeded
    /\ DistinctPaths
    /\ Len(results) = 3
    /\ Len(batches) = 1
    /\ ret.emittedFiles = <<OutPathOf(1), OutPathOf(3)>>
    /\ Truthy(results[2].source)

\* C24. Content convergence: after a run without an Error over files with
\* pairwise distinct destinations, whatever the interleaving of the write
\* tasks, the destination of every file with text present holds that text,
\* whether the file was written or skipped.
C24_ContentConverges ==
    (Succeeded /\ DistinctPaths) =>
        \A k \in 1..Len(results) :
            results[k].source # NULL => fs[OutPathOf(k)] = results[k].source

\* the same for the files whose text is not the empty string
C24_NonEmptyConverges ==
    (Succeeded /\ DistinctPaths) =>
        \A k \in 1..Len(results) :
            Truthy(results[k].source) => fs[OutPathOf(k)] = results[k].source

\* C25. Sink reset per run: whenever compileAndWriteFilesParallel returns,
\* after an Error of the custom transformers, after an Error of a file
\* (pre-emit or transformer) or with success, DiagnosticService holds no
\* diagnostic, so none is carried into the next run.
C25_SinkEmptyAtReturn == Returned => sink = <<>>

\* the same for the runs in which every processed file got past its
\* pre-emit diagnostics
C25_SinkEmptyWithoutGate ==
    (Returned /\ \A k \in 1..Len(astResults) : ~CatsError(cfg.pre[astResults[k].sourceFile]))
        => sink = <<>>

\* C26. The implementations of compileFilesParallel are equivalent: on the
\* same source files with the same outcomes per file, the single pass, the
\* two passes with the synchronous render and the two passes with async
\* render tasks return results of the same length with, at each index, the
\* same source file, the same text or absence of text and, the sink being in
\* the same state at both calls, the same diagnostics.
C26_VariantsEquivalent ==
    (cfg.variant = "phase2" /\ run = 2 /\ pc = "done") =>
        /\ Len(results) = Len(resultsFirst)
        /\ \A k \in 1..Len(results) :
              /\ results[k].sourceFile = resultsFirst[k].sourceFile
              /\ results[k].source = resultsFirst[k].source
              /\ cfg.sink0 = <<>> => results[k].diagnostics = resultsFirst[k].diagnostics

\* the single pass, then the two passes with async render tasks, on three
\* files with diagnostics, the last one with an Error of the transformer
C26_Witness ==
    /\ cfg.variant = "phase2"
    /\ cfg.render = "single"
    /\ cfg.second = "async"
    /\ cfg.sink0 = <<>>
    /\ run = 2
    /\ pc = "done"
    /\ Len(results) = 3
    /\ results[1].source = "a" /\ results[1].diagnostics # <<>>
    /\ results[3].source = NULL
    /\ Len(results[3].diagnostics) = 3

\* the results whose text is absent
AbsentResults == { k \in 1..Len(results) : results[k].source = NULL }

\* C27. Result shape: in the results compileFilesParallelPhase2 returned, a
\* result has its text absent exactly when its diagnostics contain an Error;
\* at most one result has its text absent, and that one is the last.
C27_ResultShape ==
    Phase2Returned =>
        /\ \A k \in 1..Len(results) :
              (results[k].source = NULL) <=> SomeError(results[k].diagnostics)
        /\ Cardinality(AbsentResults) <= 1
        /\ AbsentResults \subseteq {Len(results)}

\* three results: texts present with a Warning among the diagnostics of the
\* first, the last absent with a Warning before its Error
C27_Witness ==
    /\ Phase2Returned
    /\ Len(results) = 3
    /\ results[1].source # NULL
    /\ results[1].diagnostics # <<>>
    /\ results[2].source # NULL
    /\ results[3].source = NULL
    /\ Len(results[3].diagnostics) > 1
    /\ results[3].diagnostics[1].category = "Warning"

\* the first run is past step 0 and the custom transformers reported an Error,
\* which DiagnosticService held when step 0 ended
PluginErrorSeen ==
    /\ cfg.variant = "batched"
    /\ run = 1
    /\ pc # "start"
    /\ cfg.plugin.active
    /\ SomeError(PluginDiagnostics)

\* C28. Plugin-stage short-circuit: when DiagnosticService holds an Error
\* after the custom transformers ran, compileAndWriteFilesParallel has
\* returned emitSkipped = true with exactly the diagnostics drained from the
\* sink and without a list of emitted files; no file was transformed or
\* rendered, no write task was created and no destination was written.
C28_PluginShortCircuit ==
    PluginErrorSeen =>
        /\ pc = "done"
        /\ ret.returned
        /\ ret.emitSkipped
        /\ ret.diagnostics = PluginDiagnostics
        /\ ~ret.hasEmittedFiles
        /\ sink = <<>>
        /\ transformCalls = <<>>
        /\ renderCalls = <<>>
        /\ astResults = <<>>
        /\ results = <<>>
        /\ task = <<>>
        /\ emittedFiles = <<>>
        /\ fs = cfg.fs0

\* the custom transformers reported a Warning and an Error on a run over three
\* files, and step 0 had written the transformed sources
C28_Witness ==
    /\ PluginErrorSeen
    /\ cfg.n = 3
    /\ Len(PluginDiagnostics) = 2
    /\ cfg.plugin.writeTransformedFiles
    /\ transformedOut # {}
    /\ ret.returned

\* the write tasks that wrote: text present, resolved to their destination
Writers == { k \in 1..Len(task) : results[k].source # NULL /\ task[k].value = OutPathOf(k) }

\* every path whose content differs from the content at the start of the run
\* is the destination of a write task that wrote
FrameSinceStart ==
    \A q \in DOMAIN fs : fs[q] # StartFs[q] => \E k \in Writers : OutPathOf(k) = q

\* a step changes the content of a path only when a task with text present
\* that was about to write it completes its fs.outputFile
FrameStep ==
    \A q \in DOMAIN fs :
        fs'[q] # fs[q] =>
            \E k \in 1..Len(task) :
                /\ results[k].source # NULL
                /\ OutPathOf(k) = q
                /\ task[k].pc = "outputFile"
                /\ task'[k].pc # "outputFile"

\* a step in which a task ends without a path changes no content
SkipStep ==
    \A k \in 1..Min(Len(task), Len(task')) :
        (task[k].pc # "done" /\ task'[k].pc = "done" /\ task'[k].value = NoPath) => fs' = fs

\* C29. Write stage frame: the write stage changes the content of a path only
\* if the path is the destination of a result with text present whose write
\* was not skipped; an entry that is skipped leaves the content of its
\* destination as it was, and every other path is unchanged by the stage.
C29_WriteFrame ==
    /\ []FrameSinceStart
    /\ [][FrameStep /\ SkipStep]_vars

\* the step part of the frame, which also holds when write tasks fail
C29_StepFrame == [][FrameStep /\ SkipStep]_vars

\* a run over three files with writeOnlyChanged: the first is skipped, its
\* destination holding its text, the second is written and changes its
\* destination, the third has no destination content before or after
C29_Witness ==
    /\ Succeeded
    /\ cfg.writeOnlyChanged
    /\ DistinctPaths
    /\ Len(task) = 3
    /\ results[1].source = "a"
    /\ task[1].value = NoPath
    /\ fs[OutPathOf(1)] = "a"
    /\ StartFs[OutPathOf(1)] = "a"
    /\ task[2].value = OutPathOf(2)
    /\ fs[OutPathOf(2)] # StartFs[OutPathOf(2)]
    /\ results[3].source = ""
    /\ fs[OutPathOf(3)] = ABSENT

====
